---- MODULE Spec2Model ----
(***************************************************************************)
(* State-machine model of ParticleFilter (src/src/particle_filter.cpp).    *)
(*                                                                         *)
(* Numbers.  Poses and landmark positions are integers counted in units    *)
(* of 1/Scale metre; headings are counted in quarter turns, so that sin    *)
(* and cos are exact.  Weights and the wheel accumulator are integers:     *)
(* the model keeps the order and the arithmetic (+, -, *, >) the code      *)
(* applies to its doubles.                                                 *)
(*                                                                         *)
(* Particles.  A particle is its pose and its weight.  The fields id,       *)
(* associations, sense_x and sense_y are written but never read by init,   *)
(* prediction, updateWeights or resample, and are left out.                *)
(*                                                                         *)
(* Randomness.  Every draw of a distribution is a choice from the values   *)
(* the distribution can return.  The engine object is modelled by the      *)
(* number of draws made from it since it was default-constructed.          *)
(***************************************************************************)
EXTENDS Integers, Sequences, FiniteSets, TLC

\* ------------------------------------------------------------------ bounds
\* Number of particles init creates (the source sets 100; scaled down).
NumParticles == 3
\* Longest landmark list handed to dataAssociation on its own.
MaxLandmarks == 2
\* Grid cells per metre.
Scale == 2

\* ------------------------------------------------------- program constants
\* int min_dist = 999999;
InitMinDist == 999999

VARIABLES
    \* members of ParticleFilter
    num_particles, is_initialized, particles, max_weight,
    \* resample(): control point and locals
    pc, index, b, i, resampled_particles,
    \* the engine object `gen` of the running or last call: draws made from it
    \* so far, and the count it held when the call made its first draw
    gen, gen_entry,
    \* the last call: its name, is_initialized at its entry, how it ended,
    \* whether it read landmark_list[id] with id outside the list
    last_op, was_initialized, outcome, oob_read,
    \* resample(): while-iterations of the current draw, and what the last
    \* call, if it was resample, started from ("fresh", "zero", "other")
    wheel_steps, wheel_kind,
    \* one call of dataAssociation on its own: arguments and returned id
    da_observation, da_map, da_result

vars == << num_particles, is_initialized, particles, max_weight,
           pc, index, b, i, resampled_particles, gen, gen_entry,
           last_op, was_initialized, outcome, oob_read,
           wheel_steps, wheel_kind, da_observation, da_map, da_result >>

filter_vars == << num_particles, is_initialized, particles, max_weight >>
wheel_locals == << index, b, i, resampled_particles, wheel_steps >>
da_vars == << da_observation, da_map, da_result >>

\* ----------------------------------------------------------------- helpers
\* coordinates the model follows, in units of 1/Scale metre
Coords == {0, 1}
\* headings the model follows: 0 and a quarter turn
Thetas == {0, 1}
Points == [x : Coords, y : Coords]

Range(s) == {s[k] : k \in DOMAIN s}

SeqsUpTo(S, n) == UNION {[1..k -> S] : k \in 0..n}

\* The sequences of length n whose k-th element is drawn from sets[k].
RECURSIVE Choices(_, _)
Choices(sets, n) ==
    IF n = 0 THEN {<< >>}
    ELSE {Append(s, e) : s \in Choices(sets, n - 1), e \in sets[n]}

\* sin, cos of a heading counted in quarter turns
Cos4(t) == CASE t % 4 = 0 -> 1 [] t % 4 = 1 -> 0 [] t % 4 = 2 -> -1 [] OTHER -> 0
Sin4(t) == CASE t % 4 = 0 -> 0 [] t % 4 = 1 -> 1 [] t % 4 = 2 -> 0 [] OTHER -> -1

\* floor of the square root
ISqrt(n) == CHOOSE r \in 0..n : r * r <= n /\ (r + 1) * (r + 1) > n

\* A default-constructed std::default_random_engine: no draw made yet.
DefaultEngine == 0

\* Values normal_distribution(mean, sd) returns: mean + sd * z, z in -1..1.
normal_distribution(mean, sd) == {mean + sd * z : z \in -1..1}

\* Values uniform_real_distribution(a, b2) returns: a + (b2 - a) * u, u in [0,1].
uniform_real_distribution(a, b2) == IF a <= b2 THEN a..b2 ELSE b2..a

\* std::vector<double>(first, last) with two ints is the fill constructor:
\* `first` elements, each equal to `last`.
VectorFill(first, last) == [k \in 1..first |-> last]

\* Values discrete_distribution returns for a weight vector: the indices of
\* positive weight; with no weight at all, the single outcome 0.
discrete_distribution(weights) ==
    IF Len(weights) = 0 THEN {0}
    ELSE {k - 1 : k \in {j \in 1..Len(weights) : weights[j] > 0}}

\* std::discrete_distribution<> rand_index(0, num_particles);
rand_index(n) == discrete_distribution(VectorFill(0, n))

\* ------------------------------------------------------------------ inputs
StdChoices == {<<0, 0, 0>>, <<1, 0, 0>>}
InitPoses == {[x |-> 0, y |-> 0, theta |-> 0]}
Velocities == {0, 1}
YawRates == {0, 1}
StdLandmarks == {<<1, 1>>}
ObsBatches == {<< >>, << [x |-> 0, y |-> 0] >>, << [x |-> 1, y |-> 0] >>,
               << [x |-> 0, y |-> 0], [x |-> 1, y |-> 0] >>}
Maps == {<< >>, << [x |-> 0, y |-> 0] >>, << [x |-> 1, y |-> 0], [x |-> 0, y |-> 0] >>,
         << [x |-> 1, y |-> 1] >>}
\* values an uninitialised double member may hold
UninitDoubles == {-1, 0, 3}

\* ------------------------------------------------------------------- init
\* Particle{i, x, y, theta, 1}: the initial weight
InitWeight == 1

\* Slip: the loop stops one particle short (i < num_particles - 1).
InitLoopCountShort(n) == n - 1

\* for (int i = 0; i < num_particles; ++i)
InitLoopCount(n) == n

init(x, y, theta, std) ==
    /\ pc = "idle"
    /\ num_particles' = NumParticles
    /\ \E xs \in [1..InitLoopCount(num_particles') -> normal_distribution(x, std[1]) \cap Coords],
          ys \in [1..InitLoopCount(num_particles') -> normal_distribution(y, std[2]) \cap Coords],
          ts \in [1..InitLoopCount(num_particles') -> normal_distribution(theta, std[3]) \cap Thetas] :
          particles' = particles \o
              [k \in 1..InitLoopCount(num_particles') |->
                  [x |-> xs[k], y |-> ys[k], theta |-> ts[k],
                   weight |-> InitWeight]]
    /\ is_initialized' = TRUE
    /\ gen_entry' = DefaultEngine
    /\ gen' = DefaultEngine + 3 * InitLoopCount(num_particles')
    /\ last_op' = "init"
    /\ was_initialized' = is_initialized
    /\ outcome' = "returned"
    /\ oob_read' = FALSE
    /\ wheel_kind' = "none"
    /\ UNCHANGED << max_weight, pc, wheel_locals, da_vars >>

\* ------------------------------------------------------------- prediction
\* The noiseless pose of lines 81-88.  velocity and delta_t are whole
\* numbers; yaw_rate is counted in quarter turns per time unit and the
\* quotient by yaw_rate is taken in that unit.
MotionModel(p, delta_t, velocity, yaw_rate) ==
    IF yaw_rate = 0
    THEN [x |-> p.x + velocity * Cos4(p.theta) * delta_t,
          y |-> p.y + velocity * Sin4(p.theta) * delta_t,
          theta |-> p.theta]
    ELSE [x |-> p.x + (velocity * (Sin4(p.theta + yaw_rate * delta_t) - Sin4(p.theta)))
                          \div yaw_rate,
          y |-> p.y + (velocity * (Cos4(p.theta) - Cos4(p.theta + yaw_rate * delta_t)))
                          \div yaw_rate,
          theta |-> p.theta + yaw_rate * delta_t]

\* Poses lines 91-98 can store for particle p.
PredictedPoses(p, delta_t, std_pos, velocity, yaw_rate) ==
    LET m == MotionModel(p, delta_t, velocity, yaw_rate)
    IN  {q \in [x : Coords, y : Coords, theta : Thetas] :
            /\ q.x \in normal_distribution(m.x, std_pos[1])
            /\ q.y \in normal_distribution(m.y, std_pos[2])
            /\ q.theta \in normal_distribution(m.theta, std_pos[3])}

prediction(delta_t, std_pos, velocity, yaw_rate) ==
    /\ pc = "idle"
    /\ \E poses \in Choices([k \in 1..num_particles |->
                                  PredictedPoses(particles[k], delta_t, std_pos,
                                                 velocity, yaw_rate)],
                              num_particles) :
          /\ poses \in [1..num_particles -> [x : Coords, y : Coords, theta : Thetas]]
          /\ particles' = [k \in 1..Len(particles) |->
                IF k <= num_particles
                THEN [particles[k] EXCEPT !.x = poses[k].x, !.y = poses[k].y,
                                          !.theta = poses[k].theta]
                ELSE particles[k]]
    /\ gen_entry' = DefaultEngine
    /\ gen' = DefaultEngine + 3 * num_particles
    /\ last_op' = "prediction"
    /\ was_initialized' = is_initialized
    /\ outcome' = "returned"
    /\ oob_read' = FALSE
    /\ wheel_kind' = "none"
    /\ UNCHANGED << num_particles, is_initialized, max_weight, pc, wheel_locals, da_vars >>

\* -------------------------------------------------------- dataAssociation
\* Squared distance of two grid points, in grid units.
Dist2(p, q) == (p.x - q.x) * (p.x - q.x) + (p.y - q.y) * (p.y - q.y)

\* curr_dist < min_dist, curr_dist = sqrt(d2)/Scale metres, min_dist an int:
\* sqrt(d2) < Scale*min_dist iff floor(sqrt(d2)) < Scale*min_dist.
CloserThan(d2, min_dist) == ISqrt(d2) < Scale * min_dist

\* min_dist = curr_dist: the double is truncated to int.
StoreMinDist(d2) == ISqrt(d2) \div Scale

\* State << closest_landmark_id, min_dist >> after the first k landmarks.
RECURSIVE AssociationLoop(_, _, _)
AssociationLoop(observation, landmark_list, k) ==
    IF k = 0 THEN << 0, InitMinDist >>
    ELSE LET prev == AssociationLoop(observation, landmark_list, k - 1)
             d2 == Dist2(observation, landmark_list[k])
         IN  IF CloserThan(d2, prev[2])
             THEN << k - 1, StoreMinDist(d2) >>
             ELSE prev

\* The returned index (0-based, as in the code).
dataAssociation(observation, landmark_list) ==
    AssociationLoop(observation, landmark_list, Len(landmark_list))[1]

\* ---------------------------------------------------------- updateWeights
\* Vehicle frame to map frame: rotation by the heading, then translation.
transform_obs(px, py, theta, obs) ==
    [x |-> px + Cos4(theta) * obs.x - Sin4(theta) * obs.y,
     y |-> py + Sin4(theta) * obs.x + Cos4(theta) * obs.y]

\* Axis-aligned bivariate Gaussian density, in three levels: the peak at the
\* mean, half of it within one standard deviation, 0 (underflow) beyond.
normPdf2d(x, y, mx, my, sx, sy) ==
    LET q == (x - mx) * (x - mx) * sy * sy + (y - my) * (y - my) * sx * sx
    IN  IF q = 0 THEN 2 ELSE IF q <= sx * sx * sy * sy THEN 1 ELSE 0

\* landmark_list[id]; an id outside the list reads whatever the memory holds.
LandmarkAt(landmark_list, id, garbage) ==
    IF id + 1 \in DOMAIN landmark_list THEN landmark_list[id + 1] ELSE garbage

\* particle.weight after the first k observations (lines 153-168).
RECURSIVE ParticleWeight(_, _, _, _, _, _)
ParticleWeight(p, observations, landmark_list, std_landmark, garbage, k) ==
    IF k = 0 THEN 1
    ELSE LET t == transform_obs(p.x, p.y, p.theta, observations[k])
             id == dataAssociation(t, landmark_list)
             lm == LandmarkAt(landmark_list, id, garbage)
             weight_part == normPdf2d(t.x, t.y, lm.x, lm.y,
                                      std_landmark[1], std_landmark[2])
         IN  ParticleWeight(p, observations, landmark_list, std_landmark,
                            garbage, k - 1) * weight_part

\* Slip: the reset is forgotten and the previous maximum is kept.
ResetMaxWeightKept(old) == old

\* max_weight = 0;
ResetMaxWeight(old) == 0

\* if (particle.weight > max_weight) max_weight = particle.weight;
UpdateMaxWeight(weight, mw) == IF weight > mw THEN weight ELSE mw

\* max_weight after the first k particles (lines 149-174).
RECURSIVE MaxWeightLoop(_, _, _)
MaxWeightLoop(ps, old, k) ==
    IF k = 0 THEN ResetMaxWeight(old)
    ELSE UpdateMaxWeight(ps[k].weight, MaxWeightLoop(ps, old, k - 1))

\* Whether the call reads landmark_list[id] with id outside the list.
ReadsOutside(ps, observations, landmark_list) ==
    Len(ps) > 0 /\ Len(observations) > 0 /\ Len(landmark_list) = 0

updateWeightsReturns(std_landmark, observations, map_landmarks, garbage) ==
    LET ps == [k \in 1..Len(particles) |->
                  [particles[k] EXCEPT !.weight =
                      ParticleWeight(particles[k], observations, map_landmarks,
                                     std_landmark, garbage, Len(observations))]]
    IN  /\ particles' = ps
        /\ max_weight' = MaxWeightLoop(ps, max_weight, Len(ps))
        /\ outcome' = "returned"
        /\ UNCHANGED pc

updateWeights(sensor_range, std_landmark, observations, map_landmarks) ==
    /\ pc = "idle"
    /\ last_op' = "updateWeights"
    /\ was_initialized' = is_initialized
    /\ oob_read' = ReadsOutside(particles, observations, map_landmarks)
    /\ IF ReadsOutside(particles, observations, map_landmarks)
       THEN \* undefined behaviour: the read faults, or yields what the memory holds
            \/ /\ pc' = "crashed"
               /\ outcome' = "crashed"
               /\ max_weight' = ResetMaxWeight(max_weight)
               /\ particles' = [particles EXCEPT ![1].weight = 1]
            \/ \E garbage \in Points :
                  updateWeightsReturns(std_landmark, observations, map_landmarks, garbage)
       ELSE updateWeightsReturns(std_landmark, observations, map_landmarks,
                                 [x |-> 0, y |-> 0])
    /\ wheel_kind' = "none"
    /\ UNCHANGED << num_particles, is_initialized, gen, gen_entry,
                    wheel_locals, da_vars >>

\* --------------------------------------------------------------- resample
\* Largest weight of the set (0 for the empty set).
TrueMaxWeight(ps) ==
    IF Len(ps) = 0 THEN 0
    ELSE CHOOSE w \in {ps[k].weight : k \in 1..Len(ps)} :
            \A k \in 1..Len(ps) : ps[k].weight <= w

\* What the call starts from: max_weight positive and the set's true maximum
\* ("fresh"), every weight and max_weight 0 ("zero"), anything else ("other").
WheelKind(ps, mw) ==
    IF Len(ps) > 0 /\ mw > 0 /\ mw = TrueMaxWeight(ps) THEN "fresh"
    ELSE IF Len(ps) > 0 /\ mw = 0 /\ \A k \in 1..Len(ps) : ps[k].weight = 0 THEN "zero"
    ELSE "other"

\* Cap of the counter of while-iterations (a stalled wheel iterates for ever).
WheelStepCap == NumParticles + 1

\* Slip: the wheel makes one draw too few (i < num_particles - 1).
WheelLoopContinuesShort(k, n) == k < n - 1

\* for (...; i < num_particles; ...)
WheelLoopContinues(k, n) == k < n

\* Slip: >= for >, so an accumulator equal to the weight still advances.
WheelAdvancesOnEqual(acc, weight) == acc >= weight

\* while (b > particles[index].weight)
WheelAdvances(acc, weight) == acc > weight

\* Slip: the index is not wrapped.
NextIndexNoWrap(idx, n) == idx + 1

\* index = (index + 1) % num_particles;
NextIndex(idx, n) == (idx + 1) % n

\* lines 192-199: the engine and the distributions are created, the starting
\* index is drawn.
resampleBegin ==
    /\ pc = "idle"
    /\ pc' = "for"
    /\ \E start \in rand_index(num_particles) : index' = start
    /\ b' = 0
    /\ i' = 0
    /\ resampled_particles' = << >>
    /\ wheel_steps' = 0
    /\ wheel_kind' = WheelKind(particles, max_weight)
    /\ gen_entry' = DefaultEngine
    /\ gen' = DefaultEngine + 1
    /\ last_op' = "resample"
    /\ was_initialized' = is_initialized
    /\ outcome' = "running"
    /\ oob_read' = FALSE
    /\ UNCHANGED << filter_vars, da_vars >>

\* line 203: b += rand_beta(gen);
resampleDraw ==
    /\ pc = "for"
    /\ WheelLoopContinues(i, num_particles)
    /\ \E beta \in uniform_real_distribution(0, max_weight) : b' = b + beta
    /\ gen' = gen + 1
    /\ wheel_steps' = 0
    /\ pc' = "while"
    /\ UNCHANGED << filter_vars, index, i, resampled_particles, wheel_kind,
                    gen_entry, last_op, was_initialized, outcome,
                    oob_read, da_vars >>

\* lines 205-208: one iteration of the while loop.
resampleAdvance ==
    /\ pc = "while"
    /\ WheelAdvances(b, particles[index + 1].weight)
    /\ b' = b - particles[index + 1].weight
    /\ index' = NextIndex(index, num_particles)
    /\ wheel_steps' = IF wheel_steps < WheelStepCap THEN wheel_steps + 1 ELSE wheel_steps
    /\ UNCHANGED << filter_vars, pc, i, resampled_particles, wheel_kind,
                    gen, gen_entry, last_op, was_initialized, outcome,
                    oob_read, da_vars >>

\* line 209: the while loop is left and the particle at index is appended.
resampleAppend ==
    /\ pc = "while"
    /\ ~WheelAdvances(b, particles[index + 1].weight)
    /\ resampled_particles' = Append(resampled_particles, particles[index + 1])
    /\ i' = i + 1
    /\ pc' = "for"
    /\ UNCHANGED << filter_vars, index, b, wheel_steps, wheel_kind,
                    gen, gen_entry, last_op, was_initialized, outcome,
                    oob_read, da_vars >>

\* line 212: particles = resampled_particles;
resampleEnd ==
    /\ pc = "for"
    /\ ~WheelLoopContinues(i, num_particles)
    /\ particles' = resampled_particles
    /\ pc' = "idle"
    /\ outcome' = "returned"
    \* the locals go out of scope
    /\ index' = 0
    /\ b' = 0
    /\ i' = 0
    /\ resampled_particles' = << >>
    /\ wheel_steps' = 0
    /\ UNCHANGED << num_particles, is_initialized, max_weight, wheel_kind,
                    gen, gen_entry, last_op, was_initialized,
                    oob_read, da_vars >>

\* ----------------------------------------------------------- the machine
\* The filter as constructed: no particle, not initialised; max_weight is
\* not given a value before updateWeights runs.
FilterInit ==
    /\ num_particles = 0
    /\ is_initialized = FALSE
    /\ particles = << >>
    /\ max_weight \in UninitDoubles
    /\ pc = "idle"
    /\ index = 0
    /\ b = 0
    /\ i = 0
    /\ resampled_particles = << >>
    /\ gen = DefaultEngine
    /\ gen_entry = DefaultEngine
    /\ last_op = "none"
    /\ was_initialized = FALSE
    /\ outcome = "none"
    /\ oob_read = FALSE
    /\ wheel_steps = 0
    /\ wheel_kind = "none"

Init ==
    /\ FilterInit
    /\ da_observation = [x |-> 0, y |-> 0]
    /\ da_map = << >>
    /\ da_result = -1

\* The caller runs init once, before the first step (spec 4.1, 6).
InitCallable == ~is_initialized

Next ==
    \/ \E pose \in InitPoses, std \in StdChoices :
          InitCallable /\ init(pose.x, pose.y, pose.theta, std)
    \/ \E std_pos \in StdChoices, velocity \in Velocities, yaw_rate \in YawRates :
          prediction(1, std_pos, velocity, yaw_rate)
    \/ \E std_landmark \in StdLandmarks, observations \in ObsBatches, map \in Maps :
          updateWeights(50, std_landmark, observations, map)
    \/ resampleBegin
    \/ resampleDraw
    \/ resampleAdvance
    \/ resampleAppend
    \/ resampleEnd

Spec == Init /\ [][Next]_vars

\* --------------------------------------- dataAssociation as a function
DAInit ==
    /\ FilterInit
    /\ da_observation \in Points
    /\ da_map \in SeqsUpTo(Points, MaxLandmarks)
    /\ da_result = -1

dataAssociationCall ==
    /\ da_result = -1
    /\ da_result' = dataAssociation(da_observation, da_map)
    /\ UNCHANGED << filter_vars, pc, wheel_locals, wheel_kind, gen, gen_entry,
                    last_op, was_initialized, outcome, oob_read,
                    da_observation, da_map >>

DANext == dataAssociationCall

DASpec == DAInit /\ [][DANext]_vars

\* ================================================================ claims

\* C1: once init has run, the particle set holds exactly N = num_particles
\* particles in every later state, whatever prediction / updateWeights /
\* resample calls follow.
C1_SetSizeInvariant ==
    is_initialized =>
        /\ num_particles = NumParticles
        /\ Len(particles) = num_particles

\* C1 witness: a resample, run after init, has returned and replaced the set.
C1_Witness ==
    /\ is_initialized
    /\ last_op = "resample"
    /\ pc = "idle"
    /\ Len(particles) = NumParticles
    /\ \E j, k \in 1..Len(particles) : particles[j].weight # particles[k].weight

\* C2: prediction or updateWeights called before init fails with a
\* NotInitialized error and leaves the (empty) particle set unchanged.
C2_NotInitializedError ==
    (last_op \in {"prediction", "updateWeights"} /\ ~was_initialized) =>
        /\ outcome = "NotInitialized"
        /\ particles = << >>

\* C3: over a non-empty landmark list dataAssociation returns the index of a
\* landmark at minimum Euclidean distance to the observation (so a landmark
\* coincident with the observation is the one returned).
C3_NearestLandmark ==
    (da_result # -1 /\ Len(da_map) > 0) =>
        /\ da_result \in 0..(Len(da_map) - 1)
        /\ \A k \in 1..Len(da_map) :
              Dist2(da_observation, da_map[da_result + 1])
                  <= Dist2(da_observation, da_map[k])

\* C4: against an empty landmark collection the association fails with an
\* EmptyMap error, so that updateWeights never reads a landmark entry that
\* does not exist.
C4_EmptyMapError ==
    (last_op = "updateWeights" /\ outcome # "EmptyMap") => ~oob_read

\* C5: when every particle has weight 0 and max_weight is 0, resample does
\* not loop: each draw leaves the while loop without an iteration, the N
\* draws append copies of particles of the prior set, and the call returns
\* with a set of exactly N particles and no error.
C5_ZeroWeightsTerminate ==
    wheel_kind = "zero" =>
        /\ wheel_steps = 0
        /\ pc \in {"for", "while", "idle"}
        /\ pc = "while" => b <= particles[index + 1].weight
        /\ pc \in {"for", "while"} =>
              /\ outcome = "running"
              /\ Len(resampled_particles) = i
              /\ i <= num_particles
              /\ Range(resampled_particles) \subseteq Range(particles)
        /\ pc = "idle" =>
              /\ outcome = "returned"
              /\ Len(particles) = num_particles
              /\ \A k \in 1..Len(particles) : particles[k].weight = 0

\* C5 witness: a resample started from all-zero weights has returned.
C5_Witness ==
    /\ wheel_kind = "zero"
    /\ last_op = "resample"
    /\ pc = "idle"
    /\ outcome = "returned"
    /\ Len(particles) = NumParticles

\* C6: after updateWeights has run on a non-empty set, max_weight is the
\* maximum of the particles' weights: some particle has it, none exceeds it.
C6_MaxWeightIsMaximum ==
    (last_op = "updateWeights" /\ outcome = "returned" /\ Len(particles) > 0) =>
        /\ \E k \in 1..Len(particles) : particles[k].weight = max_weight
        /\ \A k \in 1..Len(particles) : particles[k].weight <= max_weight

\* C6 witness: updateWeights has returned with unequal weights.
C6_Witness ==
    /\ last_op = "updateWeights"
    /\ outcome = "returned"
    /\ Len(particles) > 0
    /\ max_weight > 0
    /\ \E k \in 1..Len(particles) : particles[k].weight < max_weight

\* C7: after a call to init the set has exactly N = num_particles particles,
\* every particle has weight 1, and the initialized flag is set.
C7_InitPostcondition ==
    last_op = "init" =>
        /\ num_particles = NumParticles
        /\ Len(particles) = num_particles
        /\ \A k \in 1..Len(particles) : particles[k].weight = 1
        /\ is_initialized

\* C7 witness: init has run with noise that spread the particles.
C7_Witness ==
    /\ last_op = "init"
    /\ Len(particles) = NumParticles
    /\ \E j, k \in 1..Len(particles) : particles[j].x # particles[k].x

\* C8: in a resample started with max_weight > 0 equal to the set's true
\* maximum, every draw ends after at most N iterations of the while
\* loop, the wheel index stays in [0, N), and the call returns with N
\* particles appended.
C8_WheelTerminates ==
    wheel_kind = "fresh" =>
        /\ pc \in {"for", "while", "idle"}
        /\ pc \in {"for", "while"} =>
              /\ index \in 0..(num_particles - 1)
              /\ wheel_steps <= num_particles
              /\ Len(resampled_particles) = i
              /\ i <= num_particles
        /\ pc = "idle" =>
              /\ outcome = "returned"
              /\ Len(particles) = num_particles

\* C8 witness: the last of the N draws went round the wheel and ended.
C8_Witness ==
    /\ wheel_kind = "fresh"
    /\ pc = "for"
    /\ i = num_particles
    /\ Len(resampled_particles) = NumParticles
    /\ wheel_steps = num_particles

\* C9: the wheel starts at a uniformly random index of [0, N): the starting
\* indices resample can draw are exactly 0..N-1.
C9_UniformStart ==
    (last_op = "resample" /\ num_particles > 0) =>
        rand_index(num_particles) = 0..(num_particles - 1)

\* A step that enters a call which draws random numbers.
EntersDrawingCall ==
    \/ \E pose \in InitPoses, std \in StdChoices :
          init(pose.x, pose.y, pose.theta, std)
    \/ \E std_pos \in StdChoices, velocity \in Velocities, yaw_rate \in YawRates :
          prediction(1, std_pos, velocity, yaw_rate)
    \/ resampleBegin

\* C10: the filter holds one engine across init, prediction and resample:
\* each call makes its first draw from the state the previous call left.
C10_EngineContinues == [][EntersDrawingCall => gen_entry' = gen]_vars

====
